---- MODULE Spec2Model ----
(***************************************************************************)
(* Timetable CSP of src/main.py: the domain builder of find_solution, the  *)
(* three hard constraints, and ScheduleCSP's backtracking search, one step *)
(* of the interpreter's control flow per action.                           *)
(*                                                                         *)
(* A Python dict is a sequence of [key, value] entries in insertion order. *)
(* A session is the pair <<subjectId, occurrenceIndex>>; a candidate value *)
(* is the record [timeSlot, room, lecturer].  Subject ids are pairwise     *)
(* distinct in every input: a session is identified by its subject's id.   *)
(***************************************************************************)
EXTENDS Integers, Sequences, FiniteSets, TLC

VARIABLES data, domains, variables, assignments, stack, ret, pc, result, error, first_run, output

vars == <<data, domains, variables, assignments, stack, ret, pc, result, error, first_run, output>>

(* ------------------------------ bounds -------------------------------- *)
MaxSlots == 2
MaxRooms == 2
MaxLecturers == 2
MaxGroups == 2
MaxSubjects == 2
MaxCount == 2
MaxCapacity == 2

(* ------------------------------ inputs -------------------------------- *)
\* Catalog ids are opaque tokens compared only for equality, so the i-th
\* entry of a catalog carries id i, and a name that is not its id.  A subject may name a group or lecturers
\* beyond the end of a catalog: those ids are absent from it.
TimeSlotCatalogs == { [i \in 1..n |-> i] : n \in 0..MaxSlots }

RoomCatalogs ==
    UNION { { [i \in 1..n |-> [id |-> i, name |-> <<"Room", i>>, capacity |-> c[i]]] : c \in [1..n -> 1..MaxCapacity] }
            : n \in 0..MaxRooms }

LecturerCatalogs == { [i \in 1..n |-> [id |-> i, name |-> <<"Lecturer", i>>]] : n \in 0..MaxLecturers }

\* The i-th group has size i, so that the room capacities 1..MaxCapacity fall
\* below, on and above the group sizes.
GroupCatalogs == { [i \in 1..n |-> [id |-> i, size |-> i]] : n \in 0..MaxGroups }

SubjectShapes ==
    [groupId : 1..MaxGroups, count : 0..MaxCount, suitedLecturers : SUBSET (1..MaxLecturers)]

SubjectCatalogs ==
    UNION { { [i \in 1..n |-> [id |-> i,
                               name |-> <<"Subject", i>>,
                               groupId |-> sh[i].groupId,
                               count |-> sh[i].count,
                               suitedLecturers |-> sh[i].suitedLecturers]]
              : sh \in [1..n -> SubjectShapes] }
            : n \in 0..MaxSubjects }

Inputs ==
    [timeSlots : TimeSlotCatalogs, rooms : RoomCatalogs, lecturers : LecturerCatalogs,
     groups : GroupCatalogs, subjects : SubjectCatalogs]

(* --------------------------- Python helpers --------------------------- *)
None == "None"
StopIteration == "StopIteration"
IndexError == "IndexError"

Range(s) == { s[i] : i \in 1..Len(s) }

\* d[k] = v on a dict: an existing key keeps its position, a new key goes last.
DictSet(d, k, v) ==
    IF \E i \in 1..Len(d) : d[i].key = k
    THEN [i \in 1..Len(d) |-> IF d[i].key = k THEN [key |-> k, value |-> v] ELSE d[i]]
    ELSE Append(d, [key |-> k, value |-> v])

\* del d[k]
DictDel(d, k) == SelectSeq(d, LAMBDA e : e.key # k)

Keys(d) == { d[i].key : i \in 1..Len(d) }

\* next(... for x in catalog if x["id"] == id) takes the first match: its
\* index, or 0 when the generator is exhausted and next raises StopIteration.
RECURSIVE NextMatch(_, _, _)
NextMatch(catalog, id, i) ==
    IF i > Len(catalog) THEN 0
    ELSE IF catalog[i].id = id THEN i
    ELSE NextMatch(catalog, id, i + 1)

(* --------------------------- domain builder --------------------------- *)
\* Variant of DomainFilter: the capacity test written > instead of >=.
DomainFilterStrict(d, subject, room, lecturer) ==
    IF lecturer.id \notin subject.suitedLecturers THEN "False"
    ELSE LET g == NextMatch(d.groups, subject.groupId, 1)
         IN  IF g = 0 THEN StopIteration
             ELSE IF room.capacity > d.groups[g].size THEN "True"
             ELSE "False"

\* Variant of DomainFilter: the operands of "and" swapped, so that the group
\* is looked up for every lecturer.
DomainFilterEager(d, subject, room, lecturer) ==
    LET g == NextMatch(d.groups, subject.groupId, 1)
    IN  IF g = 0 THEN StopIteration
        ELSE IF room.capacity >= d.groups[g].size /\ lecturer.id \in subject.suitedLecturers
             THEN "True"
             ELSE "False"

\* Variant of DomainFilter: the suitability test left out.
DomainFilterAnyLecturer(d, subject, room, lecturer) ==
    LET g == NextMatch(d.groups, subject.groupId, 1)
    IN  IF g = 0 THEN StopIteration
        ELSE IF room.capacity >= d.groups[g].size THEN "True"
        ELSE "False"

\* The filter of the comprehension, lines 104-110:  lecturer["id"] in
\* subject["suitedLecturers"] and room["capacity"] >= next(group sizes).
\* "and" short-circuits: the group is looked up only for a suited lecturer.
\* The result is "True", "False", or StopIteration when no group matches.
DomainFilter(d, subject, room, lecturer) ==
    IF lecturer.id \notin subject.suitedLecturers THEN "False"
    ELSE LET g == NextMatch(d.groups, subject.groupId, 1)
         IN  IF g = 0 THEN StopIteration
             ELSE IF room.capacity >= d.groups[g].size THEN "True"
             ELSE "False"

\* The list comprehension of lines 99-111 for one subject: time slots
\* outermost, then rooms, then lecturers.  [raised, list]: raised when a
\* lookup raised, which abandons the comprehension.
RECURSIVE DomainLoop(_, _, _, _, _)
DomainLoop(d, subject, ti, ri, li) ==
    IF ti > Len(d.timeSlots) THEN [raised |-> FALSE, list |-> <<>>]
    ELSE IF ri > Len(d.rooms) THEN DomainLoop(d, subject, ti + 1, 1, 1)
    ELSE IF li > Len(d.lecturers) THEN DomainLoop(d, subject, ti, ri + 1, 1)
    ELSE LET keep == DomainFilter(d, subject, d.rooms[ri], d.lecturers[li])
             rest == DomainLoop(d, subject, ti, ri, li + 1)
             value == [timeSlot |-> d.timeSlots[ti],
                       room |-> d.rooms[ri].id,
                       lecturer |-> d.lecturers[li].id]
         IN  IF keep = StopIteration THEN [raised |-> TRUE, list |-> <<>>]
             ELSE IF rest.raised THEN rest
             ELSE IF keep = "True" THEN [raised |-> FALSE, list |-> <<value>> \o rest.list]
             ELSE rest

SubjectDomain(d, subject) == DomainLoop(d, subject, 1, 1, 1)

\* variables, lines 116-120: (subject id, occurrence) in subject order, then
\* occurrence order.
RECURSIVE VariablesFrom(_, _, _)
VariablesFrom(d, si, k) ==
    IF si > Len(d.subjects) THEN <<>>
    ELSE IF k >= d.subjects[si].count THEN VariablesFrom(d, si + 1, 0)
    ELSE <<(<<d.subjects[si].id, k>>)>> \o VariablesFrom(d, si, k + 1)

BuildVariables(d) == VariablesFrom(d, 1, 0)

\* The index of the subject whose comprehension fills domains[key]: the last
\* one in subject order that produces the key (a later item of a dict
\* comprehension overwrites an earlier one).
Producer(d, key) ==
    CHOOSE si \in 1..Len(d.subjects) :
        /\ d.subjects[si].id = key[1]
        /\ key[2] < d.subjects[si].count
        /\ \A sj \in (si + 1)..Len(d.subjects) :
              ~(d.subjects[sj].id = key[1] /\ key[2] < d.subjects[sj].count)

\* domains, lines 98-114.  The comprehension is evaluated once per
\* (subject, occurrence); a subject with count 0 evaluates nothing.
DomainsRaise(d) ==
    \E si \in 1..Len(d.subjects) :
        d.subjects[si].count >= 1 /\ SubjectDomain(d, d.subjects[si]).raised

BuildDomains(d) ==
    [key \in Range(BuildVariables(d)) |-> SubjectDomain(d, d.subjects[Producer(d, key)]).list]

(* ----------------------------- constraints ---------------------------- *)
\* Variant of unique_time_room: the room alone is remembered, the time slot
\* left out of the pair.
RECURSIVE ScanRoom(_, _, _)
ScanRoom(a, i, used_rooms) ==
    IF i > Len(a) THEN TRUE
    ELSE IF a[i].value.room \in used_rooms THEN FALSE
    ELSE ScanRoom(a, i + 1, used_rooms \cup {a[i].value.room})

unique_time_room_ByRoom(a) == ScanRoom(a, 1, {})

\* unique_time_room, lines 46-56: scan the values in dict order, remembering
\* the (timeSlot, room) pairs seen.
RECURSIVE ScanTimeRoom(_, _, _)
ScanTimeRoom(a, i, used_time_rooms) ==
    IF i > Len(a) THEN TRUE
    ELSE LET time_room == <<a[i].value.timeSlot, a[i].value.room>>
         IN  IF time_room \in used_time_rooms THEN FALSE
             ELSE ScanTimeRoom(a, i + 1, used_time_rooms \cup {time_room})

unique_time_room(a) == ScanTimeRoom(a, 1, {})

\* unique_lecturer_time, lines 59-69.
RECURSIVE ScanLecturerTime(_, _, _)
ScanLecturerTime(a, i, lecturer_time_slots) ==
    IF i > Len(a) THEN TRUE
    ELSE LET time_lecturer == <<a[i].value.timeSlot, a[i].value.lecturer>>
         IN  IF time_lecturer \in lecturer_time_slots THEN FALSE
             ELSE ScanLecturerTime(a, i + 1, lecturer_time_slots \cup {time_lecturer})

\* Variant of unique_lecturer_time: the pair is built from the room, as in
\* unique_time_room, so that a lecturer's clash goes unseen.
unique_lecturer_time_ByRoom(a) == ScanTimeRoom(a, 1, {})

unique_lecturer_time(a) == ScanLecturerTime(a, 1, {})

\* The group of a subject id, lines 79-83: the first subject with that id.
GroupIdOf(d, subject_id) == d.subjects[NextMatch(d.subjects, subject_id, 1)].groupId

\* Variant of unique_group_time: the pair remembered is (timeSlot, subject
\* id), the group never looked up.
RECURSIVE ScanSubjectTime(_, _, _)
ScanSubjectTime(a, i, seen) ==
    IF i > Len(a) THEN TRUE
    ELSE LET time_subject == <<a[i].value.timeSlot, a[i].key[1]>>
         IN  IF time_subject \in seen THEN FALSE
             ELSE ScanSubjectTime(a, i + 1, seen \cup {time_subject})

unique_group_time_BySubject(a, d) == ScanSubjectTime(a, 1, {})

\* unique_group_time, lines 72-90.
RECURSIVE ScanGroupTime(_, _, _, _)
ScanGroupTime(a, d, i, group_time_slots) ==
    IF i > Len(a) THEN TRUE
    ELSE LET time_group == <<a[i].value.timeSlot, GroupIdOf(d, a[i].key[1])>>
         IN  IF time_group \in group_time_slots THEN FALSE
             ELSE ScanGroupTime(a, d, i + 1, group_time_slots \cup {time_group})

unique_group_time(a, d) == ScanGroupTime(a, d, 1, {})

\* hard_constraints, lines 123-127, in list order.
hard_constraints == <<"unique_time_room", "unique_lecturer_time", "unique_group_time">>

Constraint(name, a, d) ==
    CASE name = "unique_time_room" -> unique_time_room(a)
      [] name = "unique_lecturer_time" -> unique_lecturer_time(a)
      [] name = "unique_group_time" -> unique_group_time(a, d)

(* ------------------------------ ScheduleCSP --------------------------- *)
\* Variant of is_consistent: the entry is deleted on the True exit only.
is_consistent_KeepOnFalse(a, d, variable, value) ==
    LET tentative == DictSet(a, variable, value)
        ok == \A c \in 1..Len(hard_constraints) : Constraint(hard_constraints[c], tentative, d)
    IN  [ok |-> ok,
         after |-> IF ok THEN DictDel(tentative, variable) ELSE tentative]

\* is_consistent, lines 12-22: the value is put under the variable, the
\* constraints are tried in order, and the variable's entry is deleted on
\* both exits.  [ok, after]: the boolean returned and the dict it leaves.
is_consistent(a, d, variable, value) ==
    LET tentative == DictSet(a, variable, value)
    IN  [ok |-> \A c \in 1..Len(hard_constraints) : Constraint(hard_constraints[c], tentative, d),
         after |-> DictDel(tentative, variable)]

\* unassigned, line 31.
Unassigned(vs, a) == SelectSeq(vs, LAMBDA v : v \notin Keys(a))

\* A frame of backtrack: where the call stands (at = "entry": line 28;
\* "for": the head of the loop of line 34; "if": line 35 with is_consistent's
\* answer in ok; "called": line 38, the recursive call made), the variable
\* chosen at line 32 and the position idx of the loop in its domain.
NoVariable == <<0, 0>>
EntryFrame == [at |-> "entry", variable |-> NoVariable, idx |-> 0, ok |-> FALSE]

Top == stack[Len(stack)]
SetTop(f) == [stack EXCEPT ![Len(stack)] = f]
Pop == SubSeq(stack, 1, Len(stack) - 1)

\* What backtrack returns at line 29 is the dict self.assignments itself,
\* not a copy.
SelfAssignments == "self.assignments"

(* ------------------------------- states ------------------------------- *)
NoRun == [outcome |-> "norun", solution |-> <<>>]

Init ==
    /\ data \in Inputs
    /\ domains = <<>>
    /\ variables = <<>>
    /\ assignments = <<>>
    /\ stack = <<>>
    /\ ret = "pending"
    /\ pc = "start"
    /\ result = "unset"
    /\ error = "none"
    /\ first_run = NoRun
    /\ output = <<>>

\* find_solution up to the call of line 133: the domains (one lookup error
\* ends the run), the variables, a fresh ScheduleCSP with empty assignments,
\* and the root call of backtrack.
FindSolution ==
    /\ pc = "start"
    /\ IF DomainsRaise(data)
       THEN /\ pc' = "raised"
            /\ error' = StopIteration
            /\ UNCHANGED <<domains, variables, assignments, stack>>
       ELSE /\ domains' = BuildDomains(data)
            /\ variables' = BuildVariables(data)
            /\ assignments' = <<>>
            /\ stack' = <<EntryFrame>>
            /\ pc' = "search"
            /\ UNCHANGED error
    /\ UNCHANGED <<data, ret, result, first_run, output>>

\* A return of the top call with value v: to the calling frame, or, from the
\* root call, to find_solution, which returns it (lines 133-135).
Return(v) ==
    /\ stack' = Pop
    /\ IF Len(stack) = 1
       THEN pc' = "returned" /\ result' = v /\ ret' = "pending"
       ELSE ret' = v /\ UNCHANGED <<pc, result>>

\* Variants of AllAssigned: the base case declared one entry early, and a
\* comparison that no dict of the search satisfies.
AllAssignedEarly(a, vs) == Len(a) + 1 >= Len(vs)
AllAssignedStrict(a, vs) == Len(a) > Len(vs)

\* The base-case test of line 28.
AllAssigned(a, vs) == Len(a) = Len(vs)

\* Variant of BacktrackEntry: the unassigned variables are held in a
\* collection without a fixed iteration order, so any of them may come first.
BacktrackEntryAnyOrder ==
    /\ pc = "search"
    /\ Top.at = "entry"
    /\ IF AllAssigned(assignments, variables)
       THEN Return(SelfAssignments) /\ UNCHANGED error
       ELSE LET unassigned == Unassigned(variables, assignments)
            IN  IF unassigned = <<>>
                THEN /\ pc' = "raised"
                     /\ error' = IndexError
                     /\ UNCHANGED <<stack, ret, result>>
                ELSE /\ \E v \in Range(unassigned) :
                            stack' = SetTop([at |-> "for", variable |-> v,
                                             idx |-> 1, ok |-> FALSE])
                     /\ UNCHANGED <<pc, error, ret, result>>
    /\ UNCHANGED <<data, domains, variables, assignments, first_run, output>>

\* Variant of BacktrackEntry: the last unassigned variable is taken, as
\* unassigned[-1] would.
BacktrackEntryLast ==
    /\ pc = "search"
    /\ Top.at = "entry"
    /\ IF AllAssigned(assignments, variables)
       THEN Return(SelfAssignments) /\ UNCHANGED error
       ELSE LET unassigned == Unassigned(variables, assignments)
            IN  IF unassigned = <<>>
                THEN /\ pc' = "raised"
                     /\ error' = IndexError
                     /\ UNCHANGED <<stack, ret, result>>
                ELSE /\ stack' = SetTop([at |-> "for",
                                         variable |-> unassigned[Len(unassigned)],
                                         idx |-> 1, ok |-> FALSE])
                     /\ UNCHANGED <<pc, error, ret, result>>
    /\ UNCHANGED <<data, domains, variables, assignments, first_run, output>>

\* backtrack, lines 28-32.
BacktrackEntry ==
    /\ pc = "search"
    /\ Top.at = "entry"
    /\ IF AllAssigned(assignments, variables)
       THEN Return(SelfAssignments) /\ UNCHANGED error
       ELSE LET unassigned == Unassigned(variables, assignments)
            IN  IF unassigned = <<>>
                THEN /\ pc' = "raised"
                     /\ error' = IndexError
                     /\ UNCHANGED <<stack, ret, result>>
                ELSE /\ stack' = SetTop([at |-> "for", variable |-> unassigned[1],
                                         idx |-> 1, ok |-> FALSE])
                     /\ UNCHANGED <<pc, error, ret, result>>
    /\ UNCHANGED <<data, domains, variables, assignments, first_run, output>>

\* Lines 34-35: the loop takes its next value and is_consistent is called.
CheckValue ==
    /\ pc = "search"
    /\ Top.at = "for"
    /\ Top.idx <= Len(domains[Top.variable])
    /\ LET r == is_consistent(assignments, data, Top.variable, domains[Top.variable][Top.idx])
       IN  /\ assignments' = r.after
           /\ stack' = SetTop([Top EXCEPT !.at = "if", !.ok = r.ok])
    /\ UNCHANGED <<data, domains, variables, ret, pc, result, error, first_run, output>>

\* Lines 36-37: the value is committed and backtrack is called.
Commit ==
    /\ pc = "search"
    /\ Top.at = "if"
    /\ Top.ok
    /\ assignments' = DictSet(assignments, Top.variable, domains[Top.variable][Top.idx])
    /\ stack' = Append(SetTop([Top EXCEPT !.at = "called"]), EntryFrame)
    /\ UNCHANGED <<data, domains, variables, ret, pc, result, error, first_run, output>>

\* Variant of Reject: the loop does not move on to the next value.
RejectNoAdvance ==
    /\ pc = "search"
    /\ Top.at = "if"
    /\ ~Top.ok
    /\ stack' = SetTop([Top EXCEPT !.at = "for"])
    /\ UNCHANGED <<data, domains, variables, assignments, ret, pc, result, error, first_run, output>>

\* Line 35, is_consistent answered False: on to the next value.
Reject ==
    /\ pc = "search"
    /\ Top.at = "if"
    /\ ~Top.ok
    /\ stack' = SetTop([Top EXCEPT !.at = "for", !.idx = @ + 1])
    /\ UNCHANGED <<data, domains, variables, assignments, ret, pc, result, error, first_run, output>>

\* Variant of Propagate: the del of line 40 stands before the test of line 38.
PropagateDelFirst ==
    /\ pc = "search"
    /\ Top.at = "called"
    /\ ret # None
    /\ assignments' = DictDel(assignments, Top.variable)
    /\ Return(ret)
    /\ UNCHANGED <<data, domains, variables, error, first_run, output>>

\* Lines 38-39: the recursive call returned a solution, which is returned.
Propagate ==
    /\ pc = "search"
    /\ Top.at = "called"
    /\ ret # None
    /\ Return(ret)
    /\ UNCHANGED <<data, domains, variables, assignments, error, first_run, output>>

\* Variant of Undo: after the first failed descent the call deletes its entry
\* and gives up, as if "return None" stood inside the loop.
UndoGiveUp ==
    /\ pc = "search"
    /\ Top.at = "called"
    /\ ret = None
    /\ assignments' = DictDel(assignments, Top.variable)
    /\ Return(None)
    /\ UNCHANGED <<data, domains, variables, error, first_run, output>>

\* Variant of Undo: the entry is not deleted before the loop goes on.
UndoKeepEntry ==
    /\ pc = "search"
    /\ Top.at = "called"
    /\ ret = None
    /\ stack' = SetTop([Top EXCEPT !.at = "for", !.idx = @ + 1])
    /\ ret' = "pending"
    /\ UNCHANGED <<data, domains, variables, assignments, pc, result, error, first_run, output>>

\* Lines 38 and 40: the recursive call returned None; the entry is deleted
\* and the loop goes on.
Undo ==
    /\ pc = "search"
    /\ Top.at = "called"
    /\ ret = None
    /\ assignments' = DictDel(assignments, Top.variable)
    /\ stack' = SetTop([Top EXCEPT !.at = "for", !.idx = @ + 1])
    /\ ret' = "pending"
    /\ UNCHANGED <<data, domains, variables, pc, result, error, first_run, output>>

\* Line 42: the domain is exhausted.
Exhausted ==
    /\ pc = "search"
    /\ Top.at = "for"
    /\ Top.idx > Len(domains[Top.variable])
    /\ Return(None)
    /\ UNCHANGED <<data, domains, variables, assignments, error, first_run, output>>

Next ==
    \/ FindSolution
    \/ BacktrackEntry
    \/ CheckValue
    \/ Commit
    \/ Reject
    \/ Propagate
    \/ Undo
    \/ Exhausted

Spec == Init /\ [][Next]_vars

(* ------------------------- a second run ------------------------------- *)
\* What find_solution gave its caller: the exception, None, or the mapping.
Outcome ==
    [outcome |-> IF pc = "raised" THEN error
                 ELSE IF result = None THEN None ELSE "solution",
     solution |-> IF pc = "returned" /\ result = SelfAssignments THEN assignments ELSE <<>>]

\* find_solution is called again on the same data: a new ScheduleCSP, new
\* domains and an empty assignments dict; the first outcome is kept aside.
Rerun ==
    /\ pc \in {"returned", "raised"}
    /\ first_run = NoRun
    /\ first_run' = Outcome
    /\ domains' = <<>>
    /\ variables' = <<>>
    /\ assignments' = <<>>
    /\ stack' = <<>>
    /\ ret' = "pending"
    /\ pc' = "start"
    /\ result' = "unset"
    /\ error' = "none"
    /\ UNCHANGED <<data, output>>

NextTwice == Next \/ Rerun

SpecTwice == Init /\ [][NextTwice]_vars

(* --------------------- ScheduleCSP used directly ---------------------- *)
\* A caller that holds the ScheduleCSP object calls is_consistent on it once
\* backtrack has returned, for any variable and any value of its domain.
ApiIsConsistent ==
    /\ pc = "returned"
    /\ \E variable \in Range(variables) :
         \E value \in Range(domains[variable]) :
            assignments' = is_consistent(assignments, data, variable, value).after
    /\ UNCHANGED <<data, domains, variables, stack, ret, pc, result, error, first_run, output>>

NextApi == Next \/ ApiIsConsistent

SpecApi == Init /\ [][NextApi]_vars

(* ------------------------- the entry point ---------------------------- *)
\* A line of standard output.
Line(kind, subject, timeSlot, room, lecturer) ==
    [kind |-> kind, subject |-> subject, timeSlot |-> timeSlot, room |-> room,
     lecturer |-> lecturer]

HeaderLine == Line("Schedule Solution:", <<>>, 0, <<>>, <<>>)
NoSolutionLine == Line("No solution found.", <<>>, 0, <<>>, <<>>)

\* print_solution, lines 142-156: one line per entry in dict order, with the
\* names of the subject, room and lecturer found by their ids.
print_solution(solution, d) ==
    [i \in 1..Len(solution) |->
        Line("Subject:",
             d.subjects[NextMatch(d.subjects, solution[i].key[1], 1)].name,
             solution[i].value.timeSlot,
             d.rooms[NextMatch(d.rooms, solution[i].value.room, 1)].name,
             d.lecturers[NextMatch(d.lecturers, solution[i].value.lecturer, 1)].name)]

\* "if solution:", line 171: None is false, and so is a dict without entries.
Truthy(res, a) == res # None /\ Len(a) > 0

\* Lines 171-175, after find_solution has returned.
Main ==
    /\ pc = "returned"
    /\ pc' = "exit"
    /\ output' = IF Truthy(result, assignments)
                 THEN <<HeaderLine>> \o print_solution(assignments, data)
                 ELSE <<NoSolutionLine>>
    /\ UNCHANGED <<data, domains, variables, assignments, stack, ret, result, error, first_run>>

NextMain == Next \/ Main

SpecMain == Init /\ [][NextMain]_vars

(* --------------------- inputs of the termination property ------------------- *)
\* Termination is checked on the inputs whose group catalog is complete and
\* whose rooms all have the largest capacity: the search over time slots,
\* rooms and lecturers of up to MaxSubjects * MaxCount sessions, with all its
\* backtracking.
FairInputs ==
    { d \in Inputs : /\ Len(d.groups) = MaxGroups
                     /\ \A r \in 1..Len(d.rooms) : d.rooms[r].capacity = MaxCapacity }

InitFair == Init /\ data \in FairInputs

\* The interpreter runs one thread and always takes its next step: a run
\* stops only where no step is left.
FairSpec == InitFair /\ [][Next]_vars /\ WF_vars(Next)

(* ============================ properties ============================== *)
\* The sessions the input asks for, and the subject a session belongs to.
Sessions(d) ==
    UNION { { <<d.subjects[i].id, k>> : k \in 0..(d.subjects[i].count - 1) }
            : i \in 1..Len(d.subjects) }

SubjectOf(d, session) == CHOOSE s \in Range(d.subjects) : s.id = session[1]

RECURSIVE SumCounts(_, _)
SumCounts(d, i) ==
    IF i > Len(d.subjects) THEN 0 ELSE d.subjects[i].count + SumCounts(d, i + 1)

Returned == pc = "returned"
Solved == pc = "returned" /\ result = SelfAssignments
NoSolution == pc = "returned" /\ result = None

\* Two entries that may stand together in a timetable.
Compatible(d, e1, e2) ==
    e1.value.timeSlot = e2.value.timeSlot =>
        /\ e1.value.room # e2.value.room
        /\ e1.value.lecturer # e2.value.lecturer
        /\ SubjectOf(d, e1.key).groupId # SubjectOf(d, e2.key).groupId

\* Some choice of domain values for the sessions of todo stands together
\* with the entries of chosen.
RECURSIVE CanComplete(_, _)
CanComplete(chosen, todo) ==
    \/ todo = {}
    \/ LET s == CHOOSE x \in todo : TRUE
       IN  \E v \in Range(domains[s]) :
              LET e == [key |-> s, value |-> v]
              IN  /\ \A c \in chosen : Compatible(data, c, e)
                  /\ CanComplete(chosen \cup {e}, todo \ {s})

Satisfiable == CanComplete({}, Sessions(data))

\* C1 (soundness): in every mapping find_solution returns, two distinct
\* sessions with the same time slot have different rooms, different
\* lecturers and subjects of different groups.
C1_Soundness ==
    Solved =>
        \A i, j \in 1..Len(assignments) :
            (i # j /\ assignments[i].value.timeSlot = assignments[j].value.timeSlot) =>
                /\ assignments[i].key # assignments[j].key
                /\ assignments[i].value.room # assignments[j].value.room
                /\ assignments[i].value.lecturer # assignments[j].value.lecturer
                /\ SubjectOf(data, assignments[i].key).groupId
                      # SubjectOf(data, assignments[j].key).groupId

\* A returned mapping in which two sessions of different subjects share a
\* time slot.
C1_Witness ==
    /\ Solved
    /\ \E i, j \in 1..Len(assignments) :
          /\ assignments[i].key[1] # assignments[j].key[1]
          /\ assignments[i].value.timeSlot = assignments[j].value.timeSlot

\* C2 (completeness): when some choice of one domain value per session
\* satisfies room, lecturer and group uniqueness, a run that gets past the
\* domain construction ends by returning a solution; no-solution is
\* returned only when no such choice exists.
C2_Completeness ==
    (pc \in {"returned", "raised"} /\ error # StopIteration /\ Satisfiable) => Solved

\* A solution found after backtracking: some session did not keep the first
\* value of its domain.
C2_Witness ==
    /\ Solved
    /\ Len(assignments) >= 2
    /\ \E i \in 1..Len(assignments) :
          assignments[i].value # domains[assignments[i].key][1]
    /\ \E i \in 1..Len(assignments) :
          \E n \in 1..Len(domains[assignments[i].key]) :
             /\ domains[assignments[i].key][n] = assignments[i].value
             /\ \E m \in 1..(n - 1) :
                   \A j \in 1..(i - 1) :
                      Compatible(data, assignments[j],
                                 [key |-> assignments[i].key,
                                  value |-> domains[assignments[i].key][m]])

\* C3 (totality): the keys of a returned mapping are exactly the sessions
\* (subject id, k) with k in 0..count-1, one entry each, so that its size is
\* the sum of the subjects' counts.
C3_Totality ==
    Solved =>
        /\ Keys(assignments) = Sessions(data)
        /\ Cardinality(Keys(assignments)) = Len(assignments)
        /\ Len(assignments) = SumCounts(data, 1)

\* A returned mapping for two subjects, one of them with two occurrences.
C3_Witness ==
    /\ Solved
    /\ Len(data.subjects) = 2
    /\ \E i \in 1..Len(data.subjects) : data.subjects[i].count = 2
    /\ Len(assignments) >= 3

\* C4 (termination): once the root call of backtrack is made it returns,
\* with a solution or with None, and while it runs the number of nested
\* recursive calls below the root call is at most the number of sessions.
C4_Termination ==
    /\ (pc = "search") ~> Returned
    /\ [](pc = "search" => Len(stack) - 1 <= Len(variables))

\* The bound is met: with at least three sessions, the call that finds the
\* dict complete is nested as deep as there are sessions, in a run that had
\* to pass over some value on the way.
C4_Witness ==
    /\ pc = "search"
    /\ Len(variables) >= 3
    /\ Len(stack) - 1 = Len(variables)
    /\ \E l \in 1..(Len(stack) - 1) : stack[l].idx >= 2

Qualifies(d, subject, ti, ri, li) ==
    /\ d.lecturers[li].id \in subject.suitedLecturers
    /\ \E g \in Range(d.groups) :
          g.id = subject.groupId /\ d.rooms[ri].capacity >= g.size

TripleAt(d, ti, ri, li) ==
    [timeSlot |-> d.timeSlots[ti], room |-> d.rooms[ri].id, lecturer |-> d.lecturers[li].id]

\* The catalog positions of a value, as one number that orders values the
\* way the nesting does.
CatalogRank(d, v) ==
    LET ti == CHOOSE x \in 1..Len(d.timeSlots) : d.timeSlots[x] = v.timeSlot
        ri == CHOOSE x \in 1..Len(d.rooms) : d.rooms[x].id = v.room
        li == CHOOSE x \in 1..Len(d.lecturers) : d.lecturers[x].id = v.lecturer
    IN  (ti * (Len(d.rooms) + 1) + ri) * (Len(d.lecturers) + 1) + li

\* The state in which find_solution has built the domains and made the root
\* call; no later step assigns to domains.
DomainsBuilt == pc = "search" /\ stack = <<EntryFrame>>

C6_DomainBuilder ==
    DomainsBuilt =>
        /\ DOMAIN domains = Sessions(data)
        /\ \A session \in Sessions(data) :
              LET dom == domains[session]
                  subject == SubjectOf(data, session)
              IN  /\ Range(dom) =
                        { TripleAt(data, ti, ri, li) :
                            <<ti, ri, li>> \in
                               { t \in (1..Len(data.timeSlots)) \X (1..Len(data.rooms))
                                         \X (1..Len(data.lecturers)) :
                                   Qualifies(data, subject, t[1], t[2], t[3]) } }
                  /\ \A i, j \in 1..Len(dom) :
                        i < j => CatalogRank(data, dom[i]) < CatalogRank(data, dom[j])

\* A domain of several values that leaves out a triple for the room's
\* capacity (equal capacity being kept) and another for the lecturer.
C6_Witness ==
    /\ DomainsBuilt
    /\ \E session \in Sessions(data) :
          LET subject == SubjectOf(data, session)
          IN  /\ Len(domains[session]) >= 2
              /\ \E g \in Range(data.groups), r1, r2 \in Range(data.rooms) :
                    /\ g.id = subject.groupId
                    /\ r1.capacity < g.size
                    /\ r2.capacity = g.size
              /\ \E l \in Range(data.lecturers) : l.id \notin subject.suitedLecturers

\* C7 (consistency-check transparency): a call of is_consistent, for a
\* session with or without an entry in the dict, leaves the dict with the
\* keys, values and key order it had before the call.
C7_Transparency ==
    [][(CheckValue \/ ApiIsConsistent) => assignments' = assignments]_vars

\* C8 (binary outcome): once the domains are built the run raises nothing;
\* what it returns is None or the dict holding one value of its domain for
\* every session, and it is None when some session has an empty domain.
C8_BinaryOutcome ==
    /\ error # IndexError
    /\ pc = "raised" => (error = StopIteration /\ stack = <<>> /\ variables = <<>>)
    /\ Returned => result \in {None, SelfAssignments}
    /\ Solved =>
          /\ Keys(assignments) = Sessions(data)
          /\ \A i \in 1..Len(assignments) :
                assignments[i].value \in Range(domains[assignments[i].key])
    /\ (Returned /\ \E session \in Sessions(data) : domains[session] = <<>>) => result = None

\* None returned where the last session has an empty domain and the first
\* one a domain of several values, each tried in turn.
C8_Witness ==
    /\ NoSolution
    /\ Len(variables) >= 2
    /\ domains[variables[Len(variables)]] = <<>>
    /\ Len(domains[variables[1]]) >= 2

MissingGroup(d, subject) == \A g \in Range(d.groups) : g.id # subject.groupId

\* The comprehension of a subject gets as far as the lookup of its group:
\* there is an occurrence, a time slot, a room and a suited lecturer.
LookupReached(d, subject) ==
    /\ subject.count >= 1
    /\ Len(d.timeSlots) >= 1
    /\ Len(d.rooms) >= 1
    /\ \E l \in Range(d.lecturers) : l.id \in subject.suitedLecturers

RaisedBeforeSearch ==
    /\ pc = "raised"
    /\ error = StopIteration
    /\ stack = <<>>
    /\ assignments = <<>>
    /\ variables = <<>>

\* C9 as stated (missing-group error): whenever a subject names a group that
\* is not in the group catalog, find_solution ends in the lookup error
\* before any search step.
C9_MissingGroup ==
    (pc # "start" /\ \E s \in Range(data.subjects) : MissingGroup(data, s))
        => RaisedBeforeSearch

\* C9 as amended: find_solution ends in the lookup error, before any search
\* step, exactly when some subject with count >= 1 and a suited lecturer in
\* the lecturer catalog names a missing group while there is a time slot and
\* a room; a missing group whose lookup is never reached raises nothing.
C9_MissingGroupReached ==
    pc # "start" =>
        /\ (\E s \in Range(data.subjects) :
               MissingGroup(data, s) /\ LookupReached(data, s)) <=> pc = "raised"
        /\ pc = "raised" => RaisedBeforeSearch

\* The lookup error raised for the second of two subjects, the first of
\* which names a group of the catalog.
C9_Witness ==
    /\ RaisedBeforeSearch
    /\ Len(data.subjects) = 2
    /\ ~MissingGroup(data, data.subjects[1])
    /\ data.subjects[1].count >= 1
    /\ MissingGroup(data, data.subjects[2])

Unsuited(d, subject) == \A l \in Range(d.lecturers) : l.id \notin subject.suitedLecturers

\* C10 (empty-domain propagation): a subject none of whose suitedLecturers
\* is in the lecturer catalog raises no error (an error comes from a subject
\* with a suited lecturer), each of its sessions has the empty domain, and
\* with count >= 1 the search returns None.
C10_EmptyDomain ==
    /\ \A s \in Range(data.subjects) :
          Unsuited(data, s) =>
              /\ pc \in {"search", "returned"} =>
                    \A k \in 0..(s.count - 1) : domains[<<s.id, k>>] = <<>>
              /\ (Returned /\ s.count >= 1) => result = None
    /\ pc = "raised" => \E s \in Range(data.subjects) : ~Unsuited(data, s)

\* None returned for a first subject with a schedulable session and a second
\* one whose only suited lecturer is not in the catalog and whose group is
\* missing too.
C10_Witness ==
    /\ NoSolution
    /\ Len(data.subjects) = 2
    /\ domains[variables[1]] # <<>>
    /\ data.subjects[2].count >= 1
    /\ data.subjects[2].suitedLecturers # {}
    /\ Unsuited(data, data.subjects[2])
    /\ MissingGroup(data, data.subjects[2])

\* C11 (rendering): the entry point prints the no-solution message exactly
\* when the search returned None; a returned mapping, of any number of
\* sessions and of none, is rendered with one line per session, each with
\* the names of its subject, room and lecturer and its time slot, and without
\* the no-solution message.
SessionLines == SelectSeq(output, LAMBDA l : l.kind = "Subject:")

C11_Rendering ==
    pc = "exit" =>
        /\ (NoSolutionLine \in Range(output)) <=> (result = None)
        /\ result = SelfAssignments =>
              /\ Len(SessionLines) = Len(assignments)
              /\ \A i \in 1..Len(SessionLines) :
                    /\ SessionLines[i].subject = SubjectOf(data, assignments[i].key).name
                    /\ SessionLines[i].timeSlot = assignments[i].value.timeSlot
                    /\ \E r \in Range(data.rooms) :
                          r.id = assignments[i].value.room /\ SessionLines[i].room = r.name
                    /\ \E l \in Range(data.lecturers) :
                          l.id = assignments[i].value.lecturer
                             /\ SessionLines[i].lecturer = l.name

\* The sessions of a group, and the time slots the domains of some sessions
\* offer.
GroupSessions(g) == { session \in Sessions(data) : SubjectOf(data, session).groupId = g }

SlotsOf(sessions) ==
    { v.timeSlot : v \in UNION { Range(domains[session]) : session \in sessions } }

\* C12 (group conflict): when two sessions of the same group have domains
\* all of whose values lie in one time slot, the search returns None; and so
\* it does whenever the sessions of a group are more than the time slots
\* their domains offer.
C12_GroupConflict ==
    Returned =>
        /\ (\E s1, s2 \in Sessions(data) :
               /\ s1 # s2
               /\ SubjectOf(data, s1).groupId = SubjectOf(data, s2).groupId
               /\ Cardinality(SlotsOf({s1, s2})) <= 1) => result = None
        /\ \A g \in 1..MaxGroups :
              Cardinality(GroupSessions(g)) > Cardinality(SlotsOf(GroupSessions(g)))
                 => result = None

\* None returned for two subjects of one group, one session each, whose
\* domains hold the one time slot only and offer two rooms and two
\* lecturers: nothing but the group keeps them apart.
C12_Witness ==
    /\ NoSolution
    /\ Len(data.subjects) = 2
    /\ Len(variables) = 2
    /\ data.subjects[1].groupId = data.subjects[2].groupId
    /\ data.subjects[1].count = 1
    /\ data.subjects[2].count = 1
    /\ Cardinality(SlotsOf(Sessions(data))) = 1
    /\ \E v1 \in Range(domains[variables[1]]), v2 \in Range(domains[variables[2]]) :
          v1.room # v2.room /\ v1.lecturer # v2.lecturer

\* The sessions committed along the current search path: the variables of
\* the active calls that stand between their commit (line 36) and the return
\* of the call they made (line 38), from the root down.
CommittedPath == SelectSeq(stack, LAMBDA f : f.at = "called")

PathKeys == { CommittedPath[l].variable : l \in 1..Len(CommittedPath) }

\* C13 as stated (path invariant): at any point of a search run the keys of
\* the dict are exactly the sessions committed by the active calls, one
\* entry per such call, and no session has two entries.
C13_PathInvariant ==
    pc = "search" =>
        /\ Keys(assignments) = PathKeys
        /\ Len(assignments) = Len(CommittedPath)
        /\ Cardinality(Keys(assignments)) = Len(assignments)

\* C13 as amended: the same, at every point between steps of backtrack
\* until a call has returned the dict as a solution; from then on the
\* calls return one by one while the dict keeps the entry of every session.
\* At no point does a session have two entries.
C13_PathUntilSolved ==
    /\ (pc = "search" /\ ret # SelfAssignments) =>
          /\ Keys(assignments) = PathKeys
          /\ Len(assignments) = Len(CommittedPath)
          /\ \A l \in 1..Len(CommittedPath) : assignments[l].key = CommittedPath[l].variable
    /\ ((pc = "search" /\ ret = SelfAssignments) \/ Solved) =>
          Keys(assignments) = Range(variables)
    /\ Cardinality(Keys(assignments)) = Len(assignments)

\* Two sessions committed and the call made for the third has just returned
\* None, the second's entry not yet deleted.
C13_Witness ==
    /\ pc = "search"
    /\ ret = None
    /\ Top.at = "called"
    /\ Len(stack) >= 2
    /\ Len(assignments) = Len(stack)

\* The three predicates over a whole set of entries, pair by pair.
NoSharedRoom(entries) ==
    \A e1, e2 \in entries :
        e1.key # e2.key =>
            <<e1.value.timeSlot, e1.value.room>> # <<e2.value.timeSlot, e2.value.room>>

NoSharedLecturer(entries) ==
    \A e1, e2 \in entries :
        e1.key # e2.key =>
            <<e1.value.timeSlot, e1.value.lecturer>>
               # <<e2.value.timeSlot, e2.value.lecturer>>

NoSharedGroupSlot(entries) ==
    \A e1, e2 \in entries :
        (e1.key # e2.key
            /\ SubjectOf(data, e1.key).groupId = SubjectOf(data, e2.key).groupId)
          => e1.value.timeSlot # e2.value.timeSlot

\* The entry the innermost call has in hand: its variable with the value its
\* loop stands at.
Candidate == [key |-> Top.variable, value |-> domains[Top.variable][Top.idx]]

\* C14 (consistency-check result): for a session without an entry,
\* is_consistent answers True exactly when the dict with the session's entry
\* added has no two entries sharing (timeSlot, room), none sharing
\* (timeSlot, lecturer), and no two sessions of one group sharing a timeSlot.
C14_CheckResult ==
    (pc = "search" /\ Top.at = "if") =>
        /\ Top.variable \notin Keys(assignments)
        /\ Top.ok <=>
              LET extended == Range(assignments) \cup {Candidate}
              IN  /\ NoSharedRoom(extended)
                  /\ NoSharedLecturer(extended)
                  /\ NoSharedGroupSlot(extended)

\* is_consistent has answered False for a value whose room and lecturer are
\* free in its time slot: the group alone forbids it.
C14_Witness ==
    /\ pc = "search"
    /\ Top.at = "if"
    /\ ~Top.ok
    /\ Len(assignments) >= 1
    /\ NoSharedRoom(Range(assignments) \cup {Candidate})
    /\ NoSharedLecturer(Range(assignments) \cup {Candidate})

\* The dict a call of backtrack finds when it is entered: the entries
\* committed by the calls that enclose it, outermost first.  No step of the
\* search touches a frame below the innermost one, so this sequence is the
\* same at the return of a call as it was at its entry.
PathDict ==
    [i \in 1..Len(CommittedPath) |->
        [key |-> CommittedPath[i].variable,
         value |-> domains[CommittedPath[i].variable][CommittedPath[i].idx]]]

\* C15 (backtrack restores state): a call of backtrack finds at its entry the
\* entries of its enclosing calls, and when a call, at any level, has returned
\* None the dict is that same sequence again; after the root call has
\* returned None the dict is empty.
C15_Restores ==
    /\ (pc = "search" /\ Top.at = "entry") => assignments = PathDict
    /\ (pc = "search" /\ ret = None) => assignments = PathDict
    /\ NoSolution => assignments = <<>>

\* A call two levels down, entered with two entries in the dict, has
\* returned None after its caller had already undone an earlier value.
C15_Witness ==
    /\ pc = "search"
    /\ ret = None
    /\ Len(stack) >= 2
    /\ Top.idx >= 2
    /\ Len(assignments) >= 2
    /\ assignments = PathDict

\* Some call has reached the base case and its caller has not returned yet.
SolutionInHand == pc = "search" /\ ret = SelfAssignments

\* C16 (success propagates without further work): once a call has reached
\* the base case, every step is the return of the next enclosing call with
\* that same dict: the dict has an entry for every session and is not
\* modified, no loop moves to another value and no consistency check is made.
C16_SuccessPropagates ==
    [][SolutionInHand =>
          /\ AllAssigned(assignments, variables)
          /\ assignments' = assignments
          /\ stack' = Pop
          /\ \/ pc' = "search" /\ ret' = SelfAssignments
             \/ pc' = "returned" /\ result' = SelfAssignments]_vars

\* A solution is on its way up, one call at least has already passed it on,
\* and the call about to pass it on has values left untried.
C16_Witness ==
    /\ SolutionInHand
    /\ Len(stack) + 1 < Len(variables)
    /\ Top.idx < Len(domains[Top.variable])

\* The position of a value in the domain of a session.
DomainIndex(session, value) ==
    CHOOSE n \in 1..Len(domains[session]) : domains[session][n] = value

\* The value of session number i, in input order, in the returned mapping.
ValueOf(i) ==
    (CHOOSE e \in Range(assignments) : e.key = variables[i]).value

\* The returned mapping's first i - 1 sessions, then the m-th domain value
\* for session number i, stand together and extend to a satisfying choice
\* for every session.
CompletesWith(i, m) ==
    LET prefix == { [key |-> variables[j], value |-> ValueOf(j)] : j \in 1..(i - 1) }
        e == [key |-> variables[i], value |-> domains[variables[i]][m]]
    IN  /\ \A c \in prefix : Compatible(data, c, e)
        /\ CanComplete(prefix \cup {e}, { variables[j] : j \in (i + 1)..Len(variables) })

\* C18 (first solution in search order): a returned solution is the
\* lexicographically smallest satisfying total assignment, sessions compared
\* in input order and values by their position in the session's domain: no
\* satisfying total assignment agrees with it on the sessions before some
\* session and gives that session an earlier value of its domain.
C18_FirstSolution ==
    Solved =>
        /\ [i \in 1..Len(assignments) |-> assignments[i].key] = variables
        /\ \A i \in 1..Len(variables) :
              \A m \in 1..(DomainIndex(variables[i], ValueOf(i)) - 1) :
                 ~CompletesWith(i, m)

\* A returned solution of three sessions or more that is not the only
\* satisfying assignment: some session could have taken a later value of its
\* domain, and some session did not get its first value.
C18_Witness ==
    /\ Solved
    /\ Len(variables) >= 3
    /\ \E i \in 1..Len(variables) : ValueOf(i) # domains[variables[i]][1]
    /\ \E i \in 1..Len(variables) :
          \E m \in (DomainIndex(variables[i], ValueOf(i)) + 1)..Len(domains[variables[i]]) :
             CompletesWith(i, m)

\* C19 (consistent prefix at every descent): at every entry to backtrack, at
\* recursion depth k (k = 0 for the root call), the dict holds exactly the
\* first k sessions of the input order, in that order, each with a value of
\* its own domain, and satisfies room, lecturer and group uniqueness; the
\* session a call selects is the one after those, the (k+1)-th.
C19_ConsistentPrefix ==
    pc = "search" =>
        /\ Top.at = "entry" =>
              LET k == Len(stack) - 1
              IN  /\ k <= Len(variables)
                  /\ [i \in 1..Len(assignments) |-> assignments[i].key]
                        = SubSeq(variables, 1, k)
                  /\ \A i \in 1..Len(assignments) :
                        assignments[i].value \in Range(domains[assignments[i].key])
                  /\ NoSharedRoom(Range(assignments))
                  /\ NoSharedLecturer(Range(assignments))
                  /\ NoSharedGroupSlot(Range(assignments))
        /\ \A l \in 1..Len(stack) :
              stack[l].at # "entry" =>
                  l <= Len(variables) /\ stack[l].variable = variables[l]

\* A call entered two levels or more below the root, with sessions still to
\* assign, after some enclosing call had passed over a value, and with two
\* entries of the dict in one time slot.
C19_Witness ==
    /\ pc = "search"
    /\ Top.at = "entry"
    /\ Len(stack) >= 3
    /\ Len(stack) - 1 < Len(variables)
    /\ \E l \in 1..(Len(stack) - 1) : stack[l].idx >= 2
    /\ \E i, j \in 1..Len(assignments) :
          i # j /\ assignments[i].value.timeSlot = assignments[j].value.timeSlot

====
